---- MODULE Spec2Model ----
(***************************************************************************)
(* ElectronIframeWebview: the find session (startFind / find / stopFind,   *)
(* the found-in-page listener, the hasFindResult emitter) and the          *)
(* didFocus / didBlur handlers that drive WindowIgnoreMenuShortcutsManager.*)
(*                                                                         *)
(* Every handler is an operator from the object's state to the state after *)
(* the handler and the sequence of effects it produced, in program order.  *)
(* Every action runs one handler and appends what it did to `log`.         *)
(***************************************************************************)
EXTENDS Integers, Sequences, FiniteSets, TLC

VARIABLES
    element,             \* this.element is defined
    findStarted,         \* this._findStarted
    enableFindWidget,    \* options.enableFindWidget, fixed at construction
    disposed,            \* the webview was disposed: its registrations are released
    suppressed,          \* WindowIgnoreMenuShortcutsManager: Suppressed / Unsuppressed
    ignoreMenuShortcuts, \* the per-window boolean the host holds
    pending,             \* host calls issued and not yet settled (promises nobody holds)
    log                  \* the handlers run so far, with their effects

vars == <<element, findStarted, enableFindWidget, disposed, suppressed,
          ignoreMenuShortcuts, pending, log>>

\* Number of handler invocations recorded in one behaviour.
MaxOps == 3

\* Arguments the callers pass.
Queries == {"", "a", "b"}
KeepSelections == {"undefined", "true", "false"}
Matches == {0, 1, 5}

\* How the host settles a call.
Outcomes == {"resolved", "rejected"}

\* this.nativeHostService.windowId and this.id: fixed for the object's lifetime.
windowId == "window"
id == "webview"

State ==
    [element |-> element, findStarted |-> findStarted,
     enableFindWidget |-> enableFindWidget, disposed |-> disposed,
     suppressed |-> suppressed, ignoreMenuShortcuts |-> ignoreMenuShortcuts]

-----------------------------------------------------------------------------
(* Effects *)

\* this._findStarted = b
Assign(b) == [kind |-> "assign", started |-> b]

\* this._hasFindResult.fire(b)
Fire(b) == [kind |-> "fire", fired |-> b]

\* this._webviewMainService.findInFrame({ windowId }, this.id, value, options)
FindInFrame(value, options) ==
    [kind |-> "findInFrame", windowId |-> windowId, id |-> id,
     value |-> value, options |-> options]

\* this._webviewMainService.stopFindInFrame({ windowId }, this.id, { keepSelection })
StopFindInFrame(keepSelection) ==
    [kind |-> "stopFindInFrame", windowId |-> windowId, id |-> id,
     options |-> {<<"keepSelection", keepSelection>>}]

\* the host call that registers (TRUE) or deregisters (FALSE) the window
SetIgnoreMenuShortcuts(b) ==
    [kind |-> "setIgnoreMenuShortcuts", windowId |-> windowId, ignore |-> b]

Done(s, eff) == [st |-> s, eff |-> eff]

\* the effects of one kind, in order
OfKind(eff, kind) == SelectSeq(eff, LAMBDA e : e.kind = kind)

\* the host dispatches of the find session, in order
Dispatches(eff) ==
    SelectSeq(eff, LAMBDA e : e.kind \in {"findInFrame", "stopFindInFrame"})

-----------------------------------------------------------------------------
(* The find session *)

\* Fault: startFind without the element check.
startFind_noElementGuard(s, value) ==
    IF value = ""
    THEN Done(s, <<>>)
    ELSE Done([s EXCEPT !.findStarted = TRUE],
              <<Assign(TRUE), FindInFrame(value, {})>>)

\* Fault: startFind clears the result signal before searching.
startFind_firesFalse(s, value) ==
    IF value = "" \/ ~s.element
    THEN Done(s, <<>>)
    ELSE Done([s EXCEPT !.findStarted = TRUE],
              <<Fire(FALSE), Assign(TRUE), FindInFrame(value, {})>>)

\* Fault: startFind marks the session started before its checks.
startFind_marksBeforeChecks(s, value) ==
    IF value = "" \/ ~s.element
    THEN Done([s EXCEPT !.findStarted = TRUE], <<Assign(TRUE)>>)
    ELSE Done([s EXCEPT !.findStarted = TRUE],
              <<Assign(TRUE), FindInFrame(value, {})>>)

\* Fault: startFind dispatches first and marks the session afterwards.
startFind_dispatchFirst(s, value) ==
    IF value = "" \/ ~s.element
    THEN Done(s, <<>>)
    ELSE Done([s EXCEPT !.findStarted = TRUE],
              <<FindInFrame(value, {}), Assign(TRUE)>>)

startFind(s, value) ==
    IF value = "" \/ ~s.element
    THEN Done(s, <<>>)
    ELSE Done([s EXCEPT !.findStarted = TRUE],
              <<Assign(TRUE), FindInFrame(value, {})>>)

\* Fault: find never goes through startFind, so a first find dispatches
\* without marking the session started.
find_neverDelegates(s, value, previous) ==
    IF ~s.element
    THEN Done(s, <<>>)
    ELSE Done(s, <<FindInFrame(value, {})>>)

\* Fault: find without the element check.
find_noElementGuard(s, value, previous) ==
    IF ~s.findStarted
    THEN startFind(s, value)
    ELSE Done(s, <<FindInFrame(value, {})>>)

find(s, value, previous) ==
    IF ~s.element
    THEN Done(s, <<>>)
    ELSE IF ~s.findStarted
         THEN startFind(s, value)
         ELSE Done(s, <<FindInFrame(value, {})>>)

\* Fault: stopFind dispatches before it clears the signal and the session.
stopFind_dispatchFirst(s, keepSelection) ==
    IF ~s.element
    THEN Done(s, <<Fire(FALSE)>>)
    ELSE Done([s EXCEPT !.findStarted = FALSE],
              <<StopFindInFrame(keepSelection), Fire(FALSE), Assign(FALSE)>>)

\* Fault: stopFind dispatches only when a session is active.
stopFind_onlyWhenStarted(s, keepSelection) ==
    IF ~s.element \/ ~s.findStarted
    THEN Done(s, <<Fire(FALSE)>>)
    ELSE Done([s EXCEPT !.findStarted = FALSE],
              <<Fire(FALSE), Assign(FALSE), StopFindInFrame(keepSelection)>>)

\* Fault: stopFind fires only after the element check.
stopFind_fireAfterGuard(s, keepSelection) ==
    IF ~s.element
    THEN Done(s, <<>>)
    ELSE Done([s EXCEPT !.findStarted = FALSE],
              <<Fire(FALSE), Assign(FALSE), StopFindInFrame(keepSelection)>>)

\* Fault: stopFind does not reset _findStarted.
stopFind_keepsStarted(s, keepSelection) ==
    IF ~s.element
    THEN Done(s, <<Fire(FALSE)>>)
    ELSE Done(s, <<Fire(FALSE), StopFindInFrame(keepSelection)>>)

stopFind(s, keepSelection) ==
    IF ~s.element
    THEN Done(s, <<Fire(FALSE)>>)
    ELSE Done([s EXCEPT !.findStarted = FALSE],
              <<Fire(FALSE), Assign(FALSE), StopFindInFrame(keepSelection)>>)

\* Fault: the listener compares the match count with 1.
onFoundInPage_moreThanOne(s, matches) ==
    Done(s, <<Fire(matches > 1)>>)

\* Fault: the listener republishes only while a session is active.
onFoundInPage_onlyWhenStarted(s, matches) ==
    IF s.findStarted
    THEN Done(s, <<Fire(matches > 0)>>)
    ELSE Done(s, <<>>)

\* the 'found-in-page' listener
onFoundInPage(s, matches) ==
    Done(s, <<Fire(matches > 0)>>)

\* Fault: a rejected findInFrame call ends the session.
settled_revertsOnReject(s, call, outcome) ==
    IF call.kind = "findInFrame" /\ outcome = "rejected"
    THEN Done([s EXCEPT !.findStarted = FALSE], <<Assign(FALSE)>>)
    ELSE Done(s, <<>>)

\* The promise a host call returns is dropped: nothing runs when it settles.
settled(s, call, outcome) == Done(s, <<>>)

-----------------------------------------------------------------------------
(* Shortcut suppression *)

didFocus(s) ==
    IF s.suppressed
    THEN Done(s, <<>>)
    ELSE Done([s EXCEPT !.suppressed = TRUE, !.ignoreMenuShortcuts = TRUE],
              <<SetIgnoreMenuShortcuts(TRUE)>>)

didBlur(s) ==
    IF ~s.suppressed
    THEN Done(s, <<>>)
    ELSE Done([s EXCEPT !.suppressed = FALSE, !.ignoreMenuShortcuts = FALSE],
              <<SetIgnoreMenuShortcuts(FALSE)>>)

\* Fault: the didFocus handler calls didBlur.
onDidFocus_callsBlur(s) == didBlur(s)

\* Fault: the didBlur handler does not reach the manager.
onDidBlur_dropped(s) == Done(s, <<>>)

\* this.on(WebviewMessageChannels.didFocus, ...)
onDidFocus(s) == didFocus(s)

\* this.on(WebviewMessageChannels.didBlur, ...)
onDidBlur(s) == didBlur(s)

-----------------------------------------------------------------------------
(* Lifecycle *)

\* Teardown: the element is gone and everything registered is released.
dispose(s) ==
    Done([s EXCEPT !.element = FALSE, !.disposed = TRUE], <<>>)

-----------------------------------------------------------------------------
(* The state machine *)

Init ==
    /\ element = TRUE
    /\ findStarted = FALSE
    /\ enableFindWidget \in BOOLEAN
    /\ disposed = FALSE
    /\ suppressed = FALSE
    /\ ignoreMenuShortcuts = FALSE
    /\ pending = <<>>
    /\ log = <<>>

\* p without its i-th element
Without(p, i) == SubSeq(p, 1, i - 1) \o SubSeq(p, i + 1, Len(p))

Run(op, args, r, inflight) ==
    /\ Len(log) < MaxOps
    /\ element' = r.st.element
    /\ findStarted' = r.st.findStarted
    /\ enableFindWidget' = r.st.enableFindWidget
    /\ disposed' = r.st.disposed
    /\ suppressed' = r.st.suppressed
    /\ ignoreMenuShortcuts' = r.st.ignoreMenuShortcuts
    /\ pending' = inflight
    /\ log' = Append(log, [op |-> op, args |-> args, pre |-> State,
                           eff |-> r.eff, post |-> r.st,
                           before |-> pending, inflight |-> inflight])

\* a handler of the webview runs; the host calls it issued are in flight
Step(op, args, r) == Run(op, args, r, pending \o Dispatches(r.eff))

StartFind ==
    \E value \in Queries :
        Step("startFind", [value |-> value], startFind(State, value))

Find ==
    \E value \in Queries, previous \in BOOLEAN :
        Step("find", [value |-> value, previous |-> previous],
             find(State, value, previous))

StopFind ==
    \E keepSelection \in KeepSelections :
        Step("stopFind", [keepSelection |-> keepSelection],
             stopFind(State, keepSelection))

\* Fault: the listener is registered whatever options.enableFindWidget is.
FoundInPage_alwaysRegistered ==
    /\ ~disposed
    /\ \E matches \in Matches :
        Step("found-in-page", [matches |-> matches], onFoundInPage(State, matches))

FoundInPage ==
    /\ enableFindWidget
    /\ ~disposed
    /\ \E matches \in Matches :
        Step("found-in-page", [matches |-> matches], onFoundInPage(State, matches))

DidFocus ==
    /\ ~disposed
    /\ Step("didFocus", <<>>, onDidFocus(State))

DidBlur ==
    /\ ~disposed
    /\ Step("didBlur", <<>>, onDidBlur(State))

Dispose ==
    /\ ~disposed
    /\ Step("dispose", <<>>, dispose(State))

\* the host settles one of the calls in flight, in any order
Settle ==
    \E i \in 1..Len(pending), outcome \in Outcomes :
        Run("settled", [call |-> pending[i], outcome |-> outcome],
            settled(State, pending[i], outcome), Without(pending, i))

Next ==
    \/ StartFind
    \/ Find
    \/ StopFind
    \/ FoundInPage
    \/ DidFocus
    \/ DidBlur
    \/ Dispose
    \/ Settle

Spec == Init /\ [][Next]_vars

-----------------------------------------------------------------------------
(* Reading the log *)

Entries == 1..Len(log)

IsFindCall(i) == log[i].op \in {"startFind", "find"}

\* i and j are stopFind calls, i before j, with no startFind/find call between
ConsecutiveStops(i, j) ==
    /\ i < j
    /\ log[i].op = "stopFind"
    /\ log[j].op = "stopFind"
    /\ \A k \in Entries : (i < k /\ k < j) => ~IsFindCall(k)

\* every effect of every handler run so far, in order
RECURSIVE EffectsUpTo(_)
EffectsUpTo(n) == IF n = 0 THEN <<>> ELSE EffectsUpTo(n - 1) \o log[n].eff

AllEffects == EffectsUpTo(Len(log))

\* the values fired by a handler
Fired(eff) == {eff[k].fired : k \in {n \in 1..Len(eff) : eff[n].kind = "fire"}}

FocusEvents == {i \in Entries : log[i].op \in {"didFocus", "didBlur"}}

LastFocusEvent == CHOOSE i \in FocusEvents : \A j \in FocusEvents : j <= i

-----------------------------------------------------------------------------
(* C1 *)

\* C1: when the surface is ready and a session is active, find(q, previous)
\* with non-empty q issues one findInFrame dispatch that carries the direction
\* (forward = ~previous) and differs from the dispatch startFind(q) issues.
C1_ContinuationCarriesDirection ==
    \A i \in Entries :
        (/\ log[i].op = "find"
         /\ log[i].pre.element
         /\ log[i].pre.findStarted
         /\ log[i].args.value # "")
        => /\ Len(Dispatches(log[i].eff)) = 1
           /\ Dispatches(log[i].eff)[1].kind = "findInFrame"
           /\ Dispatches(log[i].eff)[1].value = log[i].args.value
           /\ <<"forward", ~log[i].args.previous>> \in Dispatches(log[i].eff)[1].options
           /\ Dispatches(log[i].eff)[1] # FindInFrame(log[i].args.value, {})

-----------------------------------------------------------------------------
(* C2 *)

\* C2: startFind("") and find("", previous) issue no host dispatch and leave
\* the session state unchanged, in every state.
C2_EmptyQueryIsNoOp ==
    \A i \in Entries :
        (IsFindCall(i) /\ log[i].args.value = "")
        => /\ Dispatches(log[i].eff) = <<>>
           /\ log[i].post.findStarted = log[i].pre.findStarted

-----------------------------------------------------------------------------
(* C3 *)

-----------------------------------------------------------------------------
(* C4 *)

\* C4: every stopFind() call fires false on hasFindResult, as the first thing
\* it does, whether a session is active or not and the surface ready or not.
C4_StopFiresFalseFirst ==
    \A i \in Entries :
        log[i].op = "stopFind"
        => /\ Len(log[i].eff) >= 1
           /\ log[i].eff[1] = Fire(FALSE)
           /\ OfKind(log[i].eff, "fire") = <<Fire(FALSE)>>

\* stopFind was called on a surface that is not ready, with a session active
C4_Witness ==
    \E i \in Entries :
        /\ log[i].op = "stopFind"
        /\ ~log[i].pre.element
        /\ log[i].pre.findStarted

-----------------------------------------------------------------------------
(* C5 *)

\* C5: with no session active, find(q, previous) does what startFind(q) does:
\* one findInFrame dispatch with query q and empty options and started = true
\* when q is non-empty and the surface is ready, nothing otherwise; and a
\* find call and a startFind call made with the same query from the same
\* state have the same effects and end in the same state.
C5_FindIsStartFindWhenIdle ==
    /\ \A i \in Entries :
        (log[i].op = "find" /\ ~log[i].pre.findStarted)
        => IF log[i].args.value # "" /\ log[i].pre.element
           THEN /\ Dispatches(log[i].eff) = <<FindInFrame(log[i].args.value, {})>>
                /\ log[i].post.findStarted
           ELSE /\ Dispatches(log[i].eff) = <<>>
                /\ ~log[i].post.findStarted
    /\ \A i, j \in Entries :
        (/\ log[i].op = "find"
         /\ log[j].op = "startFind"
         /\ ~log[i].pre.findStarted
         /\ log[i].pre = log[j].pre
         /\ log[i].args.value = log[j].args.value)
        => /\ log[i].eff = log[j].eff
           /\ log[i].post = log[j].post

\* find("q", true) and startFind("q") were both called, idle and ready
C5_Witness ==
    \E i, j \in Entries :
        /\ log[i].op = "find"
        /\ log[j].op = "startFind"
        /\ log[i].args.previous
        /\ log[i].args.value # ""
        /\ log[i].args.value = log[j].args.value
        /\ log[i].pre.element
        /\ ~log[i].pre.findStarted
        /\ log[i].pre = log[j].pre

-----------------------------------------------------------------------------
(* C6 *)

\* C6: every run of the found-in-page listener with match count n fires
\* hasFindResult exactly once, with n > 0, whatever the earlier events were.
C6_ResultEventFiresOnce ==
    \A i \in Entries :
        log[i].op = "found-in-page"
        => OfKind(log[i].eff, "fire") = <<Fire(log[i].args.matches > 0)>>

\* counts 0, 5, 0 arrived in a row and fired false, true, false
C6_Witness ==
    /\ Len(log) >= 3
    /\ \A i \in 1..3 : log[i].op = "found-in-page"
    /\ log[1].args.matches = 0
    /\ log[2].args.matches = 5
    /\ log[3].args.matches = 0
    /\ log[1].eff = <<Fire(FALSE)>>
    /\ log[2].eff = <<Fire(TRUE)>>
    /\ log[3].eff = <<Fire(FALSE)>>

-----------------------------------------------------------------------------
(* C7 *)

\* C7 as stated: after every stopFind() call the session is not started,
\* whatever the state before, also when the surface is not ready.
C7_StopAlwaysResets ==
    \A i \in Entries :
        log[i].op = "stopFind" => ~log[i].post.findStarted

\* C7 amended: after a stopFind() call made while the surface is ready the
\* session is not started, whatever the session state before; a stopFind()
\* call made while the surface is not ready leaves the session state as it
\* was; a stopFind() right after a stopFind() leaves the session state the
\* first one left.
C7_StopResetsWhenReady ==
    /\ \A i \in Entries :
        log[i].op = "stopFind"
        => log[i].post.findStarted =
              IF log[i].pre.element THEN FALSE ELSE log[i].pre.findStarted
    /\ \A i \in Entries :
        (i + 1 \in Entries /\ log[i].op = "stopFind" /\ log[i + 1].op = "stopFind")
        => log[i + 1].post.findStarted = log[i].post.findStarted

\* an active session on a ready surface was stopped, and stopped again
C7_Witness ==
    \E i \in Entries :
        /\ i + 1 \in Entries
        /\ log[i].op = "stopFind"
        /\ log[i + 1].op = "stopFind"
        /\ log[i].pre.element
        /\ log[i].pre.findStarted
        /\ ~log[i].post.findStarted

-----------------------------------------------------------------------------
(* C8 *)

\* C8: while the surface is not ready, startFind, find and stopFind issue
\* neither findInFrame nor stopFindInFrame and leave the session state (and
\* the rest of the object's state) unchanged, for every argument.
C8_NotReadyIsDropped ==
    \A i \in Entries :
        (log[i].op \in {"startFind", "find", "stopFind"} /\ ~log[i].pre.element)
        => /\ Dispatches(log[i].eff) = <<>>
           /\ log[i].post = log[i].pre

\* find was called with a query while a session was active and the surface
\* was no longer ready
C8_Witness ==
    \E i \in Entries :
        /\ log[i].op = "find"
        /\ ~log[i].pre.element
        /\ log[i].pre.findStarted
        /\ log[i].args.value # ""

-----------------------------------------------------------------------------
(* C9 *)

SuppressionCalls(eff) == OfKind(eff, "setIgnoreMenuShortcuts")

\* C9: a focus event issues exactly one registration call when the state is
\* Unsuppressed and none when it is Suppressed; a blur event issues exactly
\* one deregistration call when the state is Suppressed and none when it is
\* Unsuppressed; no other handler issues a suppression call.
C9_SuppressionCallOnlyOnChange ==
    \A i \in Entries :
        /\ log[i].op = "didFocus"
           => SuppressionCalls(log[i].eff) =
                 IF log[i].pre.suppressed
                 THEN <<>>
                 ELSE <<SetIgnoreMenuShortcuts(TRUE)>>
        /\ log[i].op = "didBlur"
           => SuppressionCalls(log[i].eff) =
                 IF log[i].pre.suppressed
                 THEN <<SetIgnoreMenuShortcuts(FALSE)>>
                 ELSE <<>>
        /\ log[i].op \notin {"didFocus", "didBlur"}
           => SuppressionCalls(log[i].eff) = <<>>

\* focus, focus, blur: one registration, nothing, one deregistration
C9_Witness ==
    /\ Len(log) >= 3
    /\ log[1].op = "didFocus"
    /\ log[2].op = "didFocus"
    /\ log[3].op = "didBlur"
    /\ Len(SuppressionCalls(log[1].eff)) = 1
    /\ Len(SuppressionCalls(log[2].eff)) = 0
    /\ Len(SuppressionCalls(log[3].eff)) = 1

-----------------------------------------------------------------------------
(* C10 *)

\* C10: the suppression the host was last asked for equals the local state,
\* which is Suppressed exactly when the most recent focus/blur event was a
\* focus, and Unsuppressed when there was none or it was a blur.
C10_SuppressionFollowsFocus ==
    /\ ignoreMenuShortcuts = suppressed
    /\ suppressed = (FocusEvents # {} /\ log[LastFocusEvent].op = "didFocus")

\* focus, blur, focus: the surface ends Suppressed
C10_Witness ==
    /\ Len(log) >= 3
    /\ log[1].op = "didFocus"
    /\ log[2].op = "didBlur"
    /\ log[3].op = "didFocus"
    /\ suppressed
    /\ ignoreMenuShortcuts

-----------------------------------------------------------------------------
(* C11 *)

\* C11: once the webview is disposed no handler issues a host operation
\* (findInFrame, stopFindInFrame or a suppression call), and no focus, blur
\* or found-in-page listener runs any more.
C11_NothingAfterDispose ==
    \A i \in Entries :
        log[i].pre.disposed
        => /\ Dispatches(log[i].eff) = <<>>
           /\ SuppressionCalls(log[i].eff) = <<>>
           /\ log[i].op \notin {"found-in-page", "didFocus", "didBlur"}

\* startFind was called with a query after the webview was disposed
C11_Witness ==
    \E i, j \in Entries :
        /\ i < j
        /\ log[i].op = "dispose"
        /\ log[j].op = "startFind"
        /\ log[j].args.value # ""
        /\ log[j].pre.disposed
        /\ log[j].eff = <<>>

-----------------------------------------------------------------------------
(* C12 *)

\* C12: startFind(q) with non-empty q on a ready surface assigns
\* _findStarted = true before it issues its one findInFrame dispatch, and the
\* session is started when the call returns, with that dispatch still in
\* flight; when a host call settles, resolved or rejected, the state is left
\* as it was and nothing is dispatched again.
C12_StartedBeforeDispatchNoRetry ==
    /\ \A i \in Entries :
        (/\ log[i].op = "startFind"
         /\ log[i].args.value # ""
         /\ log[i].pre.element)
        => /\ Dispatches(log[i].eff) = <<FindInFrame(log[i].args.value, {})>>
           /\ \E a, d \in 1..Len(log[i].eff) :
                /\ a < d
                /\ log[i].eff[a] = Assign(TRUE)
                /\ log[i].eff[d] = FindInFrame(log[i].args.value, {})
           /\ log[i].post.findStarted
           /\ log[i].inflight = log[i].before \o <<FindInFrame(log[i].args.value, {})>>
    /\ \A i \in Entries :
        log[i].op = "settled"
        => /\ log[i].post = log[i].pre
           /\ log[i].eff = <<>>
           /\ Len(log[i].inflight) = Len(log[i].before) - 1

\* the findInFrame call of a startFind was rejected and the session is still
\* started
C12_Witness ==
    \E i, j \in Entries :
        /\ i < j
        /\ log[i].op = "startFind"
        /\ log[i].post.findStarted
        /\ log[j].op = "settled"
        /\ log[j].args.outcome = "rejected"
        /\ log[j].args.call = FindInFrame(log[i].args.value, {})
        /\ log[j].post.findStarted

-----------------------------------------------------------------------------
(* C13 *)

\* C13: the found-in-page listener republishes whatever the session state
\* and whatever was called since the find it answers: a count > 0 that
\* arrives while no session is active fires true; and stopFind leaves every
\* host call that was in flight still in flight.
C13_ResultsAreNotGated ==
    /\ \A i \in Entries :
        (log[i].op = "found-in-page" /\ ~log[i].pre.findStarted)
        => (Fire(TRUE) \in {log[i].eff[k] : k \in 1..Len(log[i].eff)})
              = (log[i].args.matches > 0)
    /\ \A i \in Entries :
        log[i].op = "stopFind"
        => SubSeq(log[i].inflight, 1, Len(log[i].before)) = log[i].before

\* startFind, stopFind, then a result with count > 0: true is fired while no
\* session is active and the find call is still in flight
C13_Witness ==
    \E i, j, k \in Entries :
        /\ i < j
        /\ j < k
        /\ log[i].op = "startFind"
        /\ log[i].post.findStarted
        /\ log[j].op = "stopFind"
        /\ FindInFrame(log[i].args.value, {}) \in
              {log[j].inflight[n] : n \in 1..Len(log[j].inflight)}
        /\ log[k].op = "found-in-page"
        /\ ~log[k].pre.findStarted
        /\ log[k].args.matches > 0
        /\ log[k].eff = <<Fire(TRUE)>>

-----------------------------------------------------------------------------
(* C14 *)

\* C14: in every stopFind(keepSelection) call that issues a stopFindInFrame
\* dispatch, fire(false) and _findStarted = false both come before the
\* dispatch, and the dispatch carries keepSelection as the caller gave it.
C14_StopOrder ==
    \A i \in Entries :
        (log[i].op = "stopFind" /\ OfKind(log[i].eff, "stopFindInFrame") # <<>>)
        => \E f, a, d \in 1..Len(log[i].eff) :
              /\ f < d
              /\ a < d
              /\ log[i].eff[f] = Fire(FALSE)
              /\ log[i].eff[a] = Assign(FALSE)
              /\ log[i].eff[d] = StopFindInFrame(log[i].args.keepSelection)
              /\ OfKind(log[i].eff, "stopFindInFrame") = <<log[i].eff[d]>>

\* stopFind(true) and stopFind(undefined) each issued a stop dispatch
C14_Witness ==
    \E i, j \in Entries :
        /\ log[i].op = "stopFind"
        /\ log[j].op = "stopFind"
        /\ log[i].args.keepSelection = "true"
        /\ log[j].args.keepSelection = "undefined"
        /\ OfKind(log[i].eff, "stopFindInFrame") # <<>>
        /\ OfKind(log[j].eff, "stopFindInFrame") # <<>>

-----------------------------------------------------------------------------
(* C15 *)

\* C15: the found-in-page listener leaves the session state (and the rest of
\* the object's state) as it was; startFind and find never fire
\* hasFindResult; find called while a session is active leaves it active.
C15_Frame ==
    \A i \in Entries :
        /\ log[i].op = "found-in-page"
           => /\ log[i].post = log[i].pre
              /\ OfKind(log[i].eff, "assign") = <<>>
        /\ IsFindCall(i)
           => OfKind(log[i].eff, "fire") = <<>>
        /\ (log[i].op = "find" /\ log[i].pre.findStarted)
           => /\ log[i].post.findStarted
              /\ OfKind(log[i].eff, "assign") = <<>>

\* a session was started, a result arrived, and find was called again
C15_Witness ==
    \E i, j, k \in Entries :
        /\ log[i].op = "startFind"
        /\ log[i].post.findStarted
        /\ log[j].op = "found-in-page"
        /\ log[j].pre.findStarted
        /\ log[k].op = "find"
        /\ log[k].pre.findStarted
        /\ log[k].pre.element

-----------------------------------------------------------------------------
(* C16 *)

StopPositions ==
    {n \in 1..Len(AllEffects) : AllEffects[n].kind = "stopFindInFrame"}

\* position of the most recent stopFindInFrame dispatch, 0 when there is none
LastStop ==
    IF StopPositions = {}
    THEN 0
    ELSE CHOOSE n \in StopPositions : \A m \in StopPositions : m <= n

\* C16: the session starts out not started, and whenever it is started a
\* findInFrame dispatch with a non-empty query has been issued since the most
\* recent stopFindInFrame dispatch (since creation when there was none).
C16_StartedMeansAsked ==
    /\ log = <<>> => ~findStarted
    /\ findStarted
       => \E n \in 1..Len(AllEffects) :
             /\ n > LastStop
             /\ AllEffects[n].kind = "findInFrame"
             /\ AllEffects[n].value # ""

\* a session was stopped on the host and a later find started one again
C16_Witness ==
    /\ findStarted
    /\ LastStop > 0
    /\ \E n \in 1..Len(AllEffects) :
          /\ n < LastStop
          /\ AllEffects[n].kind = "findInFrame"

-----------------------------------------------------------------------------
(* C17 *)

\* C17: with enableFindWidget false no found-in-page listener runs and
\* hasFindResult never fires true: the only values fired are the false
\* values of stopFind.
C17_NoWidgetNoTrue ==
    ~enableFindWidget
    => \A i \in Entries :
          /\ log[i].op # "found-in-page"
          /\ TRUE \notin Fired(log[i].eff)
          /\ Fired(log[i].eff) # {} => log[i].op = "stopFind"

\* without the find widget: a find was dispatched and a stopFind fired false
C17_Witness ==
    /\ ~enableFindWidget
    /\ \E i, j \in Entries :
          /\ IsFindCall(i)
          /\ OfKind(log[i].eff, "findInFrame") # <<>>
          /\ log[j].op = "stopFind"
          /\ Fired(log[j].eff) = {FALSE}

====
